---- MODULE Spec2Model ----
(***************************************************************************)
(* A model of the gym tracker: the chat bot (gymbros.py) and the dashboard *)
(* (streamlit_app.py) working on one relational store.                     *)
(*                                                                         *)
(* The store is the tables gym_sessions, cardio_logs, weightlift_logs and  *)
(* weight_check.  The bot is one process with one event loop: the code     *)
(* between two awaits runs without another bot command in between, but the *)
(* dashboard is another process, and every helper opens a transaction of   *)
(* its own, so a dashboard step may fall between a bot command's read and  *)
(* its write (and the other way round).                                    *)
(***************************************************************************)
EXTENDS Integers, Sequences, FiniteSets, TLC

VARIABLES
    sessions,   \* gym_sessions: row i has session_id i
    cardio,     \* cardio_logs, in insertion order
    lifts,      \* weightlift_logs, in insertion order
    weights,    \* weight_check, in insertion order
    clk,        \* the wall clock, in seconds since 00:00:00 of day 0
    botRun,     \* the bot command that has read and not yet written
    waiter,     \* per user: the session_end command awaiting a calorie reply
    dash,       \* per dashboard user: the script run that has read and not yet written
    reply,      \* the last message a front end showed
    calc        \* the inputs and results of the pure computations (SpecDur, ...)

vars == <<sessions, cardio, lifts, weights, clk, botRun, waiter, dash, reply, calc>>

(***************************************************************************)
(* Bounds of the model.                                                    *)
(***************************************************************************)
MaxRows == 2        \* rows in the four tables together
MaxTicks == 2       \* steps of the clock
MaxGrid == 2        \* times of day on the grid, beside the edge cases
MaxDate == 1        \* the dates date.today() may return: 0..MaxDate
MaxRuns == 2        \* runs of one computation on one input
MaxEntries == 3     \* lift entries given to the records query
MaxTableRows == 2   \* data rows of a table
MaxOwnLifts == 2    \* lift entries of the users together

(***************************************************************************)
(* Program constants.                                                      *)
(***************************************************************************)
NULL == -1              \* SQL NULL / Python None
DAY == 86400            \* timedelta(days=1), in seconds
HOUR == 3600
MINUTE == 60            \* ".seconds // 60"
WAIT_TIMEOUT == 60      \* bot.wait_for(..., timeout=60)
TICK == WAIT_TIMEOUT \div 2    \* the clock's step in the model, in seconds

Users == {"u1", "u2"}
DashUsers == {"u1"}     \* the users logged in to the dashboard
Machines == {"Treadmill"}
Durations == {30}
MainExercises == {"Squat"}
StartClock == DAY - TICK        \* 23:59:30 of day 0

SetMax(S) == CHOOSE x \in S : \A y \in S : y <= x

(***************************************************************************)
(* Dates and times.  A datetime is a number of seconds since 00:00:00 of   *)
(* day 0, a date a number of days, a time of day a number in 0..DAY-1.     *)
(***************************************************************************)
today(c) == c \div DAY

time_of_day(c) == c % DAY

combine(d, t) == d * DAY + t

\* timedelta.seconds: Python normalises a timedelta to days, 0 <= seconds < DAY
timedelta_seconds(delta) == delta % DAY

\* time.strftime("%H:%M:%S"): the three fields of the text
strftime(t) == <<t \div HOUR, (t \div MINUTE) % MINUTE, t % MINUTE>>

\* datetime.strptime(text, "%H:%M:%S").time(): the time of day, or ValueError.
\* A text that is not three numeric fields is the empty tuple here.
strptime(s) ==
    IF Len(s) = 3 /\ s[1] \in 0..23 /\ s[2] \in 0..59 /\ s[3] \in 0..59
    THEN [err |-> "none", t |-> s[1] * HOUR + s[2] * MINUTE + s[3]]
    ELSE [err |-> "ValueError", t |-> 0]

\* What the TIME column keeps of the text the code writes
db_time(s) == strptime(s).t

\* What the driver hands back for a TIME column: a timedelta
timedelta(secs) == [kind |-> "timedelta", secs |-> secs, hms |-> <<>>]

\* (datetime.min + td).time(): OverflowError below datetime.min, else the time of day
min_plus_time(td) ==
    IF td.secs < 0
    THEN [err |-> "OverflowError", t |-> 0]
    ELSE [err |-> "none", t |-> td.secs % DAY]

\* What else a column may hand back: a time object, a text, or None
time_obj(secs) == [kind |-> "time", secs |-> secs, hms |-> <<>>]

text_val(hms) == [kind |-> "str", secs |-> 0, hms |-> hms]

none_val == [kind |-> "none", secs |-> 0, hms |-> <<>>]

\* str(value) of a value that is no timedelta: a time prints as %H:%M:%S, a text
\* is itself, and "None" has no numeric fields
py_str(v) ==
    CASE v.kind = "time" -> strftime(v.secs)
      [] v.kind = "str" -> v.hms
      [] OTHER -> <<>>

(***************************************************************************)
(* The store's helpers (gymbros.py).                                       *)
(***************************************************************************)
ActiveIds(S) == {i \in 1..Len(S) : S[i].end_time = NULL}

\* INSERT INTO gym_sessions (date, start_time, notes); returns the new table
start_session(S, user, c) ==
    Append(S, [owner |-> user,
               date |-> today(c),
               start_time |-> db_time(strftime(time_of_day(c))),
               end_time |-> NULL,
               total_calories |-> NULL])

\* ORDER BY session_id ASC
get_active_session_oldest(S) ==
    IF ActiveIds(S) = {} THEN NULL
    ELSE CHOOSE i \in ActiveIds(S) : \A j \in ActiveIds(S) : i <= j

\* SELECT ... WHERE end_time IS NULL ORDER BY session_id DESC LIMIT 1
get_active_session(S) ==
    IF ActiveIds(S) = {} THEN NULL ELSE SetMax(ActiveIds(S))

\* The dashboard's lookup, get_active_session(user_id): the user's own sessions
dash_get_active_session(S, uid) ==
    LET mine == {i \in ActiveIds(S) : S[i].owner = uid}
    IN  IF mine = {} THEN NULL ELSE SetMax(mine)

\* A DELETE in place of the UPDATE
end_session_delete(S, session_id, calories, c) ==
    SubSeq(S, 1, session_id - 1) \o SubSeq(S, session_id + 1, Len(S))

\* UPDATE gym_sessions SET end_time, total_calories WHERE session_id = :session_id
end_session(S, session_id, calories, c) ==
    [i \in 1..Len(S) |->
        IF i = session_id
        THEN [S[i] EXCEPT !.end_time = db_time(strftime(time_of_day(c))),
                          !.total_calories = calories]
        ELSE S[i]]

\* An insert run twice
add_weightlift_db_twice(L, session_id, exercise, weight, c) ==
    LET row == [session_id |-> session_id, date |-> today(c),
                exercise_name |-> exercise, weight |-> weight]
    IN  Append(Append(L, row), row)

\* INSERT INTO cardio_logs
insert_cardio_db(C, session_id, machine, duration, c) ==
    Append(C, [session_id |-> session_id, date |-> today(c),
               machine_type |-> machine, duration |-> duration])

\* INSERT INTO weightlift_logs
add_weightlift_db(L, session_id, exercise, weight, c) ==
    Append(L, [session_id |-> session_id, date |-> today(c),
               exercise_name |-> exercise, weight |-> weight])

\* One row per day: a second weight of the day replaces the first
log_weight_db_upsert(W, tenths, c) ==
    IF \E i \in 1..Len(W) : W[i].date_checked = today(c)
    THEN [i \in 1..Len(W) |->
             IF W[i].date_checked = today(c)
             THEN [W[i] EXCEPT !.weight_kg = tenths \div 10]
             ELSE W[i]]
    ELSE Append(W, [date_checked |-> today(c), weight_kg |-> tenths \div 10])

\* INSERT INTO weight_check; the weight comes in tenths of a kg, int() drops them
log_weight_db(W, tenths, c) ==
    Append(W, [date_checked |-> today(c), weight_kg |-> tenths \div 10])

(***************************************************************************)
(* The duration computations.                                              *)
(***************************************************************************)
\* session_end, lines 408-424: the parse of the stored start, then the minutes
\* from it to now.  d is date.today(), now is datetime.now().
session_end_parse(start_val) ==
    IF start_val.kind = "timedelta"
    THEN min_plus_time(start_val)
    ELSE strptime(py_str(start_val))

session_end_minutes(start_t, d, now) ==
    LET start_dt == combine(d, start_t)
        start_adj == IF now < start_dt THEN start_dt - DAY ELSE start_dt
    IN  timedelta_seconds(now - start_adj) \div MINUTE

\* What session_end does with a stored start: a duration, the parse-error reply,
\* or an exception that leaves the command (on_command_error answers it)
session_end_row(start_val, d, now) ==
    LET parsed == session_end_parse(start_val)
    IN  CASE parsed.err = "ValueError" -> [out |-> "parse_error", min |-> 0]
          [] parsed.err = "OverflowError" -> [out |-> "raise", min |-> 0]
          [] OTHER -> [out |-> "minutes", min |-> session_end_minutes(parsed.t, d, now)]

\* history, lines 582-588
safe_time_parse(time_value) ==
    CASE time_value.kind = "timedelta" -> min_plus_time(time_value)
      [] time_value.kind = "time" -> [err |-> "none", t |-> time_value.secs]
      [] OTHER -> strptime(py_str(time_value))

\* Minutes rounded up
history_minutes_ceil(start_t, end_t, d1, d2) ==
    LET t_start == combine(d1, start_t)
        t_end == combine(d2, end_t)
        t_adj == IF t_end < t_start THEN t_end + DAY ELSE t_end
    IN  (timedelta_seconds(t_adj - t_start) + MINUTE - 1) \div MINUTE

\* No rollover, and total_seconds() in place of .seconds
history_minutes_plain(start_t, end_t, d1, d2) ==
    (combine(d2, end_t) - combine(d1, start_t)) \div MINUTE

\* history, lines 600-605: d1 and d2 are the two date.today() of lines 600 and 601
history_minutes(start_t, end_t, d1, d2) ==
    LET t_start == combine(d1, start_t)
        t_end == combine(d2, end_t)
        t_adj == IF t_end < t_start THEN t_end + DAY ELSE t_end
    IN  timedelta_seconds(t_adj - t_start) \div MINUTE

\* history, lines 593-612: the Dur(m) cell of one row; any exception leaves "-"
history_row(start_val, end_val, d1, d2) ==
    LET ps == safe_time_parse(start_val)
        pe == safe_time_parse(end_val)
    IN  IF ps.err # "none" \/ pe.err # "none"
        THEN [out |-> "dash", min |-> 0]
        ELSE [out |-> "minutes", min |-> history_minutes(ps.t, pe.t, d1, d2)]

\* streamlit_app.py, line 491: the truth value of a stored value
truthy(v) ==
    CASE v.kind = "timedelta" -> v.secs # 0
      [] v.kind = "time" -> TRUE
      [] v.kind = "str" -> v.hms # <<>>
      [] OTHER -> FALSE

\* streamlit_app.py, lines 489-490: d1 and d2 are the two date.today() of the
\* lines, the end's first
dash_minutes(start_t, end_t, d1, d2) ==
    timedelta_seconds(combine(d1, end_t) - combine(d2, start_t)) \div MINUTE

\* streamlit_app.py, lines 488-491: the Dur(m) cell of one row of Recent
\* Workouts; datetime.min + a value raises unless the value is a timedelta it
\* can add
dash_row(start_val, end_val, d1, d2) ==
    IF ~truthy(end_val)
    THEN [out |-> "minutes", min |-> 0]
    ELSE IF end_val.kind # "timedelta" \/ start_val.kind # "timedelta"
         THEN [out |-> "raise", min |-> 0]
         ELSE LET pe == min_plus_time(end_val)
                  ps == min_plus_time(start_val)
              IN  IF pe.err # "none" \/ ps.err # "none"
                  THEN [out |-> "raise", min |-> 0]
                  ELSE [out |-> "minutes", min |-> dash_minutes(ps.t, pe.t, d1, d2)]

(***************************************************************************)
(* The front ends' state.                                                  *)
(***************************************************************************)
Idle == [op |-> "idle", user |-> "-", sid |-> NULL]

NoWait == [on |-> FALSE, sid |-> NULL, dur |-> NULL, since |-> NULL]

NoReply == [to |-> "-", kind |-> "none", sid |-> NULL]

Say(u, kind, sid) == [to |-> u, kind |-> kind, sid |-> sid]

NoCalc == [pc |-> "off"]

Rows == Len(sessions) + Len(cardio) + Len(lifts) + Len(weights)

InitStore ==
    /\ sessions = <<>>
    /\ cardio = <<>>
    /\ lifts = <<>>
    /\ weights = <<>>
    /\ clk = StartClock
    /\ botRun = Idle
    /\ waiter = [u \in Users |-> NoWait]
    /\ dash = [u \in DashUsers |-> Idle]
    /\ reply = NoReply

Init == InitStore /\ calc = NoCalc

\* Time passes.
Tick ==
    /\ clk + TICK <= StartClock + MaxTicks * TICK
    /\ clk' = clk + TICK
    /\ UNCHANGED <<sessions, cardio, lifts, weights, botRun, waiter, dash, reply, calc>>

(***************************************************************************)
(* The bot's commands.                                                     *)
(***************************************************************************)
\* The refusal without its return: the command goes on to the insert
session_start_read_no_return(u) ==
    /\ botRun = Idle
    /\ Rows < MaxRows
    /\ LET active == get_active_session(sessions)
       IN  /\ reply' = IF active # NULL THEN Say(u, "already_active", active) ELSE reply
           /\ botRun' = [op |-> "start", user |-> u, sid |-> NULL]
    /\ UNCHANGED <<sessions, cardio, lifts, weights, clk, waiter, dash, calc>>

\* !session_start, lines 391-394: the lookup, and the refusal
session_start_read(u) ==
    /\ botRun = Idle
    /\ Rows < MaxRows
    /\ LET active == get_active_session(sessions)
       IN  IF active # NULL
           THEN /\ reply' = Say(u, "already_active", active)
                /\ UNCHANGED botRun
           ELSE /\ botRun' = [op |-> "start", user |-> u, sid |-> NULL]
                /\ UNCHANGED reply
    /\ UNCHANGED <<sessions, cardio, lifts, weights, clk, waiter, dash, calc>>

\* !session_start, lines 395-396: the insert
session_start_write ==
    /\ botRun.op = "start"
    /\ Rows < MaxRows
    /\ sessions' = start_session(sessions, botRun.user, clk)
    /\ reply' = Say(botRun.user, "started", Len(sessions'))
    /\ botRun' = Idle
    /\ UNCHANGED <<cardio, lifts, weights, clk, waiter, dash, calc>>

\* !session_end, lines 400-426: up to the wait for the calorie reply
session_end(u) ==
    /\ botRun = Idle
    /\ ~waiter[u].on
    /\ LET active == get_active_session(sessions)
       IN  IF active = NULL
           THEN /\ reply' = Say(u, "no_active", NULL)
                /\ UNCHANGED waiter
           ELSE LET parsed == session_end_parse(timedelta(sessions[active].start_time))
                    duration == session_end_minutes(parsed.t, today(clk), clk)
                IN  CASE parsed.err = "ValueError" ->
                           /\ reply' = Say(u, "parse_error", active)
                           /\ UNCHANGED waiter
                      [] parsed.err = "OverflowError" ->
                           /\ reply' = Say(u, "unexpected_error", active)
                           /\ UNCHANGED waiter
                      [] OTHER ->
                           /\ reply' = Say(u, "found", active)
                           /\ waiter' = [waiter EXCEPT ![u] =
                                 [on |-> TRUE, sid |-> active, dur |-> duration,
                                  since |-> clk]]
    /\ UNCHANGED <<sessions, cardio, lifts, weights, clk, botRun, dash, calc>>

\* check, line 430, and int(), line 437, on a message's content, a sequence of
\* characters.  "sup2" stands for the superscript two: a digit to str.isdigit,
\* not a decimal to int().
DecimalChars == <<"0", "1", "2", "3", "4", "5", "6", "7", "8", "9">>

DigitChars == {DecimalChars[k] : k \in 1..10} \cup {"sup2"}

isdigit(content) ==
    Len(content) > 0 /\ \A i \in 1..Len(content) : content[i] \in DigitChars

DecimalValue(ch) == CHOOSE k \in 0..9 : DecimalChars[k + 1] = ch

RECURSIVE DecimalNumber(_)
DecimalNumber(content) ==
    IF content = <<>>
    THEN 0
    ELSE DecimalNumber(SubSeq(content, 1, Len(content) - 1)) * 10
         + DecimalValue(content[Len(content)])

int(content) ==
    IF \A i \in 1..Len(content) : \E k \in 1..10 : content[i] = DecimalChars[k]
    THEN [err |-> "none", v |-> DecimalNumber(content)]
    ELSE [err |-> "ValueError", v |-> 0]

\* !session_end, lines 429-432 and 437-439: a message of the author passes check
\* in time; int() of its content either gives the calories or raises, and
\* on_command_error answers what is raised
session_end_reply(u, content) ==
    /\ botRun = Idle
    /\ waiter[u].on
    /\ clk < waiter[u].since + WAIT_TIMEOUT
    /\ isdigit(content)
    /\ LET calories == int(content)
       IN  IF calories.err = "ValueError"
           THEN /\ reply' = Say(u, "unexpected_error", waiter[u].sid)
                /\ UNCHANGED sessions
           ELSE /\ sessions' = end_session(sessions, waiter[u].sid, calories.v, clk)
                /\ reply' = Say(u, "ended", waiter[u].sid)
    /\ waiter' = [waiter EXCEPT ![u] = NoWait]
    /\ UNCHANGED <<cardio, lifts, weights, clk, botRun, dash, calc>>

\* The timeout ending the session with no calories
session_end_timeout_ends(u) ==
    /\ botRun = Idle
    /\ waiter[u].on
    /\ clk >= waiter[u].since + WAIT_TIMEOUT
    /\ sessions' = end_session(sessions, waiter[u].sid, 0, clk)
    /\ reply' = Say(u, "timeout", waiter[u].sid)
    /\ waiter' = [waiter EXCEPT ![u] = NoWait]
    /\ UNCHANGED <<cardio, lifts, weights, clk, botRun, dash, calc>>

\* !session_end, lines 433-435: no qualifying reply within the wait
session_end_timeout(u) ==
    /\ botRun = Idle
    /\ waiter[u].on
    /\ clk >= waiter[u].since + WAIT_TIMEOUT
    /\ reply' = Say(u, "timeout", waiter[u].sid)
    /\ waiter' = [waiter EXCEPT ![u] = NoWait]
    /\ UNCHANGED <<sessions, cardio, lifts, weights, clk, botRun, dash, calc>>

\* !add_cardio and !add_lift, lines 443-446 and 459-462: the lookup
add_log_read(u) ==
    /\ botRun = Idle
    /\ LET active == get_active_session(sessions)
       IN  IF active = NULL
           THEN /\ reply' = Say(u, "no_active", NULL)
                /\ UNCHANGED botRun
           ELSE /\ botRun' = [op |-> "log", user |-> u, sid |-> active]
                /\ UNCHANGED reply
    /\ UNCHANGED <<sessions, cardio, lifts, weights, clk, waiter, dash, calc>>

\* !add_cardio, lines 448-455: the insert
add_cardio(machine, duration) ==
    /\ botRun.op = "log"
    /\ Rows < MaxRows
    /\ cardio' = insert_cardio_db(cardio, botRun.sid, machine, duration, clk)
    /\ reply' = Say(botRun.user, "cardio_logged", botRun.sid)
    /\ botRun' = Idle
    /\ UNCHANGED <<sessions, lifts, weights, clk, waiter, dash, calc>>

\* !add_lift, lines 464-465: the insert
add_lift(exercise, weight) ==
    /\ botRun.op = "log"
    /\ Rows < MaxRows
    /\ lifts' = add_weightlift_db(lifts, botRun.sid, exercise, weight, clk)
    /\ reply' = Say(botRun.user, "lift_logged", botRun.sid)
    /\ botRun' = Idle
    /\ UNCHANGED <<sessions, cardio, weights, clk, waiter, dash, calc>>

\* !log_weight, lines 654-665
log_weight(u, tenths) ==
    /\ botRun = Idle
    /\ Rows < MaxRows
    /\ weights' = log_weight_db(weights, tenths, clk)
    /\ reply' = Say(u, "weight_logged", Len(weights'))
    /\ UNCHANGED <<sessions, cardio, lifts, clk, botRun, waiter, dash, calc>>

(***************************************************************************)
(* The dashboard's script runs (streamlit_app.py), one per logged-in user. *)
(* The dashboard calls the store's helpers with the user's id; its lookup  *)
(* of the active session is the user's own (dash_get_active_session), and  *)
(* its writes are the inserts and the update above.                        *)
(***************************************************************************)
\* Start Session, lines 433-437: the lookup, and the refusal
dash_start_read(u) ==
    /\ dash[u] = Idle
    /\ Rows < MaxRows
    /\ LET active == dash_get_active_session(sessions, u)
       IN  IF active # NULL
           THEN /\ reply' = Say(u, "already_active", active)
                /\ UNCHANGED dash
           ELSE /\ dash' = [dash EXCEPT ![u] = [op |-> "start", user |-> u, sid |-> NULL]]
                /\ UNCHANGED reply
    /\ UNCHANGED <<sessions, cardio, lifts, weights, clk, botRun, waiter, calc>>

\* Start Session, lines 439-441: the insert
dash_start_write(u) ==
    /\ dash[u].op = "start"
    /\ Rows < MaxRows
    /\ sessions' = start_session(sessions, u, clk)
    /\ reply' = Say(u, "started", Len(sessions'))
    /\ dash' = [dash EXCEPT ![u] = Idle]
    /\ UNCHANGED <<cardio, lifts, weights, clk, botRun, waiter, calc>>

\* The end form's Confirm, lines 457-462: the run's lookup of the active session
dash_end_read(u) ==
    /\ dash[u] = Idle
    /\ dash_get_active_session(sessions, u) # NULL
    /\ dash' = [dash EXCEPT ![u] =
          [op |-> "end", user |-> u, sid |-> dash_get_active_session(sessions, u)]]
    /\ UNCHANGED <<sessions, cardio, lifts, weights, clk, botRun, waiter, reply, calc>>

\* The end form's Confirm, lines 470-474: the update
dash_end_write(u, calories) ==
    /\ dash[u].op = "end"
    /\ sessions' = end_session(sessions, dash[u].sid, calories, clk)
    /\ reply' = Say(u, "ended", dash[u].sid)
    /\ dash' = [dash EXCEPT ![u] = Idle]
    /\ UNCHANGED <<cardio, lifts, weights, clk, botRun, waiter, calc>>

\* The Log tab, lines 507-512: the run's lookup of the active session
dash_log_read(u) ==
    /\ dash[u] = Idle
    /\ dash_get_active_session(sessions, u) # NULL
    /\ dash' = [dash EXCEPT ![u] =
          [op |-> "log", user |-> u, sid |-> dash_get_active_session(sessions, u)]]
    /\ UNCHANGED <<sessions, cardio, lifts, weights, clk, botRun, waiter, reply, calc>>

\* Log Lift, lines 536-548: the insert
dash_log_lift(u, exercise, weight) ==
    /\ dash[u].op = "log"
    /\ Rows < MaxRows
    /\ lifts' = add_weightlift_db(lifts, dash[u].sid, exercise, weight, clk)
    /\ reply' = Say(u, "lift_logged", dash[u].sid)
    /\ dash' = [dash EXCEPT ![u] = Idle]
    /\ UNCHANGED <<sessions, cardio, weights, clk, botRun, waiter, calc>>

\* Log Cardio, lines 568-584: the insert
dash_log_cardio(u, machine, duration) ==
    /\ dash[u].op = "log"
    /\ Rows < MaxRows
    /\ cardio' = insert_cardio_db(cardio, dash[u].sid, machine, duration, clk)
    /\ reply' = Say(u, "cardio_logged", dash[u].sid)
    /\ dash' = [dash EXCEPT ![u] = Idle]
    /\ UNCHANGED <<sessions, lifts, weights, clk, botRun, waiter, calc>>

\* Log Weight, lines 632-636
dash_log_weight(u, tenths) ==
    /\ dash[u] = Idle
    /\ Rows < MaxRows
    /\ weights' = log_weight_db(weights, tenths, clk)
    /\ reply' = Say(u, "weight_logged", Len(weights'))
    /\ UNCHANGED <<sessions, cardio, lifts, clk, botRun, waiter, dash, calc>>

Calories == {250}

\* The messages a user sends during the wait: a number, the superscript two, a word
Replies == {<<"2", "5", "0">>, <<"sup2">>, <<"n", "o">>}

LiftWeights == {100}

BodyWeights == {755}            \* 75.5 kg, in tenths

Next ==
    \/ Tick
    \/ \E u \in Users : session_start_read(u)
    \/ session_start_write
    \/ \E u \in Users : session_end(u)
    \/ \E u \in Users, content \in Replies : session_end_reply(u, content)
    \/ \E u \in Users : session_end_timeout(u)
    \/ \E u \in Users : add_log_read(u)
    \/ \E m \in Machines, d \in Durations : add_cardio(m, d)
    \/ \E e \in MainExercises, w \in LiftWeights : add_lift(e, w)
    \/ \E u \in Users, w \in BodyWeights : log_weight(u, w)
    \/ \E u \in DashUsers : dash_start_read(u)
    \/ \E u \in DashUsers : dash_start_write(u)
    \/ \E u \in DashUsers : dash_end_read(u)
    \/ \E u \in DashUsers, c \in Calories : dash_end_write(u, c)
    \/ \E u \in DashUsers : dash_log_read(u)
    \/ \E u \in DashUsers, e \in MainExercises, w \in LiftWeights : dash_log_lift(u, e, w)
    \/ \E u \in DashUsers, m \in Machines, d \in Durations : dash_log_cardio(u, m, d)
    \/ \E u \in DashUsers, w \in BodyWeights : dash_log_weight(u, w)

Spec == Init /\ [][Next]_vars

(***************************************************************************)
(* The store's lifecycle rules.                                            *)
(***************************************************************************)
ActiveOf(u) == {i \in ActiveIds(sessions) : sessions[i].owner = u}

IsPrefix(a, b) == Len(a) <= Len(b) /\ SubSeq(b, 1, Len(a)) = a

\* C1: in every reachable state, whatever the interleaving of the bot's and the
\* dashboard's session starts and ends, no owner has two sessions with a null
\* end time.
C1_AtMostOneActivePerOwner ==
    \A u \in Users : Cardinality(ActiveOf(u)) <= 1

\* C2: once an end operation has set a session's end time and calories, no later
\* step changes that session's end time or calories.
C2_EndedOnce ==
    [][\A i \in 1..Len(sessions) :
          sessions[i].end_time # NULL =>
              /\ i <= Len(sessions')
              /\ sessions'[i].end_time = sessions[i].end_time
              /\ sessions'[i].total_calories = sessions[i].total_calories]_vars

\* C3: no step removes a session (the session ids 1..Len(sessions) only grow),
\* and a session whose end time is set never has a null end time again.
C3_SessionsKept ==
    [][/\ Len(sessions') >= Len(sessions)
       /\ \A i \in 1..Len(sessions) :
             /\ sessions'[i].owner = sessions[i].owner
             /\ sessions[i].end_time # NULL => sessions'[i].end_time # NULL]_vars

\* C3's case: a session has been ended and another session exists beside it.
C3_Witness ==
    /\ Len(sessions) >= 2
    /\ \E i \in 1..Len(sessions) : sessions[i].end_time # NULL

CardioAdd ==
    \/ \E m \in Machines, d \in Durations : add_cardio(m, d)
    \/ \E u \in DashUsers, m \in Machines, d \in Durations : dash_log_cardio(u, m, d)

LiftAdd ==
    \/ \E e \in MainExercises, w \in LiftWeights : add_lift(e, w)
    \/ \E u \in DashUsers, e \in MainExercises, w \in LiftWeights : dash_log_lift(u, e, w)

WeightAdd ==
    \/ \E u \in Users, w \in BodyWeights : log_weight(u, w)
    \/ \E u \in DashUsers, w \in BodyWeights : dash_log_weight(u, w)

\* C4: a successful add_cardio / add_lift step adds exactly one entry to its table
\* and leaves the entries already there as they were; every other step leaves
\* both tables unchanged.
C4_LogsImmutable ==
    [][/\ IF CardioAdd
          THEN Len(cardio') = Len(cardio) + 1 /\ IsPrefix(cardio, cardio')
          ELSE cardio' = cardio
       /\ IF LiftAdd
          THEN Len(lifts') = Len(lifts) + 1 /\ IsPrefix(lifts, lifts')
          ELSE lifts' = lifts]_vars

\* C4's case: a log entry exists and the session it was logged into has since
\* been ended by another operation.
C4_Witness ==
    \E i \in 1..Len(cardio) :
        /\ cardio[i].session_id \in 1..Len(sessions)
        /\ sessions[cardio[i].session_id].end_time # NULL

\* C5: a log_weight step adds exactly one body-weight entry after the entries
\* already there, and no step changes or removes an earlier entry.
C5_WeightsAppendOnly ==
    [][IF WeightAdd
       THEN Len(weights') = Len(weights) + 1 /\ IsPrefix(weights, weights')
       ELSE weights' = weights]_vars

\* C5's case: a second entry has been logged after a first.
C5_Witness == Len(weights) >= 2

(***************************************************************************)
(* The records query (gymbros.py, get_personal_records).                   *)
(***************************************************************************)
\* The comparison of two exercise names by "=" and GROUP BY: the exact text
same_exercise(a, b) == a = b

\* The names as a case-insensitive comparison folds them
FoldCase(n) == IF n = "Squat" THEN "squat" ELSE n

\* The rows of the query with the names compared without regard to case
pr_rows_ci(L) ==
    LET names == {FoldCase(L[i].exercise_name) : i \in 1..Len(L)}
        group(n) == {i \in 1..Len(L) : FoldCase(L[i].exercise_name) = n}
        max_weight(n) == SetMax({L[i].weight : i \in group(n)})
        pr_date(n) == SetMax({L[i].date : i \in {j \in group(n) : L[j].weight = max_weight(n)}})
    IN  {[exercise_name |-> n, max_weight |-> max_weight(n), pr_date |-> pr_date(n)] :
            n \in names}

\* SELECT exercise_name, MAX(weight), (SELECT date ... ORDER BY date DESC LIMIT 1)
\* FROM weightlift_logs w GROUP BY exercise_name: the rows, in no order
pr_rows(L) ==
    LET names == {L[i].exercise_name : i \in 1..Len(L)}
        group(n) == {i \in 1..Len(L) : same_exercise(L[i].exercise_name, n)}
        max_weight(n) == SetMax({L[i].weight : i \in group(n)})
        pr_date(n) == SetMax({L[i].date : i \in {j \in group(n) : L[j].weight = max_weight(n)}})
    IN  {[exercise_name |-> n, max_weight |-> max_weight(n), pr_date |-> pr_date(n)] :
            n \in names}

\* ORDER BY max_weight ASC
get_personal_records_asc(L) ==
    LET rows == pr_rows(L)
        n == Cardinality(rows)
    IN  {f \in [1..n -> rows] :
            /\ \A i, j \in 1..n : i # j => f[i] # f[j]
            /\ \A i \in 1..(n - 1) : f[i].max_weight <= f[i + 1].max_weight}

\* ORDER BY max_weight DESC: every order of the rows the clause allows (it says
\* nothing about rows of equal max_weight)
get_personal_records(L) ==
    LET rows == pr_rows(L)
        n == Cardinality(rows)
    IN  {f \in [1..n -> rows] :
            /\ \A i, j \in 1..n : i # j => f[i] # f[j]
            /\ \A i \in 1..(n - 1) : f[i].max_weight >= f[i + 1].max_weight}

(***************************************************************************)
(* The table helper (gymbros.py, create_table).  A text is a string; the   *)
(* box-drawing characters of the source are written here as ASCII          *)
(* characters, one for one; no cell text holds a line break.               *)
(***************************************************************************)
TOP_LEFT == "{"         \* the corners and junctions of the top border
TOP_MID == "^"
TOP_RIGHT == "}"
MID_LEFT == "["         \* ... of the separator under the header
MID_MID == "+"
MID_RIGHT == "]"
BOT_LEFT == "("         \* ... of the bottom border
BOT_MID == "_"
BOT_RIGHT == ")"
HLINE == "="            \* the horizontal line
VLINE == "|"            \* the vertical line

\* The cells a caller passes: a text, a number, or None
str_cell(s) == [kind |-> "str", s |-> s, n |-> 0]

int_cell(n) == [kind |-> "int", s |-> "", n |-> n]

none_cell == [kind |-> "none", s |-> "", n |-> 0]

\* str(cell)
str(cell) == IF cell.kind = "int" THEN ToString(cell.n) ELSE cell.s

\* None rendered as an empty text
processed_cell_blank(cell) == IF cell.kind # "none" THEN str(cell) ELSE ""

\* lines 273-275: str(cell) if cell is not None else "-"
processed_cell(cell) == IF cell.kind # "none" THEN str(cell) ELSE "-"

processed_rows(rows) ==
    [r \in 1..Len(rows) |-> [i \in 1..Len(rows[r]) |-> processed_cell(rows[r][i])]]

max(a, b) == IF a >= b THEN a ELSE b

\* lines 279-281, the inner loop: col_widths[i] = max(col_widths[i], len(cell));
\* col_widths[i] of a cell beyond the headers is an IndexError
RECURSIVE widths_of_row(_, _, _)
widths_of_row(W, row, i) ==
    IF i > Len(row) \/ W.err # "none" THEN W
    ELSE IF i > Len(W.w) THEN [W EXCEPT !.err = "IndexError"]
    ELSE widths_of_row([W EXCEPT !.w[i] = max(@, Len(row[i]))], row, i + 1)

\* lines 279-281, the outer loop
RECURSIVE widths_of_rows(_, _, _)
widths_of_rows(W, prows, r) ==
    IF r > Len(prows) \/ W.err # "none" THEN W
    ELSE widths_of_rows(widths_of_row(W, prows[r], 1), prows, r + 1)

\* The widths with the headers left out
col_widths_rows_only(headers, prows) ==
    widths_of_rows([err |-> "none", w |-> [i \in 1..Len(headers) |-> 0]], prows, 1)

\* lines 278-281
col_widths(headers, prows) ==
    widths_of_rows([err |-> "none", w |-> [i \in 1..Len(headers) |-> Len(headers[i])]],
                   prows, 1)

\* fill * n
RECURSIVE repeat(_, _)
repeat(fill, n) == IF n <= 0 THEN "" ELSE fill \o repeat(fill, n - 1)

\* sep.join(parts)
RECURSIVE join(_, _)
join(sep, parts) ==
    IF Len(parts) = 0 THEN ""
    ELSE IF Len(parts) = 1 THEN parts[1]
    ELSE parts[1] \o sep \o join(sep, Tail(parts))

\* The text as it is, with no padding
ljust_none(text, w) == text

\* f"{text:<{w}}": the text, padded with spaces on the right up to w characters
ljust(text, w) == text \o repeat(" ", w - Len(text))

\* lines 284-285
make_line(left, mid, right, fill, W) ==
    left \o join(mid, [i \in 1..Len(W) |-> repeat(fill, W[i] + 2)]) \o right

\* lines 295-297 and 303-305: the vertical line, then " cell |" for each cell
RECURSIVE cells_line(_, _, _)
cells_line(cells, W, i) ==
    IF i > Len(cells) THEN ""
    ELSE " " \o ljust(cells[i], W[i]) \o " " \o VLINE \o cells_line(cells, W, i + 1)

\* The table with an empty body line when there are no rows
create_table_blank_body(headers, rows) ==
    LET prows == processed_rows(rows)
        W == col_widths(headers, prows)
        top == make_line(TOP_LEFT, TOP_MID, TOP_RIGHT, HLINE, W.w)
        middle == make_line(MID_LEFT, MID_MID, MID_RIGHT, HLINE, W.w)
        bottom == make_line(BOT_LEFT, BOT_MID, BOT_RIGHT, HLINE, W.w)
        body == IF Len(prows) = 0
                THEN <<VLINE \o cells_line([i \in 1..Len(headers) |-> ""], W.w, 1)>>
                ELSE [r \in 1..Len(prows) |-> VLINE \o cells_line(prows[r], W.w, 1)]
        lines == <<top, VLINE \o cells_line(headers, W.w, 1), middle>> \o body \o <<bottom>>
    IN  IF W.err # "none"
        THEN [err |-> W.err, text |-> ""]
        ELSE [err |-> "none", text |-> join("\n", lines)]

\* create_table, lines 270-309: the text of the table, or the exception raised
create_table(headers, rows) ==
    LET prows == processed_rows(rows)
        W == col_widths(headers, prows)
        top == make_line(TOP_LEFT, TOP_MID, TOP_RIGHT, HLINE, W.w)
        middle == make_line(MID_LEFT, MID_MID, MID_RIGHT, HLINE, W.w)
        bottom == make_line(BOT_LEFT, BOT_MID, BOT_RIGHT, HLINE, W.w)
        body == [r \in 1..Len(prows) |-> VLINE \o cells_line(prows[r], W.w, 1)]
        lines == <<top, VLINE \o cells_line(headers, W.w, 1), middle>> \o body \o <<bottom>>
    IN  IF W.err # "none"
        THEN [err |-> W.err, text |-> ""]
        ELSE [err |-> "none", text |-> join("\n", lines)]

(***************************************************************************)
(* The !pr command (gymbros.py, personal_records).                         *)
(***************************************************************************)
NAME_MAX == 15          \* the characters of an exercise name the table shows

PR_HEADERS == <<"Exercise", "Max Weight (kg)", "Date Achieved">>

\* date.strftime("%b %d, %Y"); the dates of the model are the days of one January
strftime_date(d) ==
    "Jan " \o (IF d < 10 THEN "0" ELSE "") \o ToString(d) \o ", 2025"

\* lines 633-639: the table row of one record
pr_table_row(rec) ==
    <<str_cell(IF Len(rec.exercise_name) > NAME_MAX
               THEN SubSeq(rec.exercise_name, 1, NAME_MAX) \o ".."
               ELSE rec.exercise_name),
      int_cell(rec.max_weight),
      str_cell(IF rec.pr_date # NULL THEN strftime_date(rec.pr_date) ELSE "-")>>

\* The table rendered also when there are no records
personal_records_reply_table(records) ==
    [kind |-> "table",
     table |-> create_table(PR_HEADERS,
                            [i \in 1..Len(records) |-> pr_table_row(records[i])]).text]

\* lines 626-646: what the command sends for the records the query returned
personal_records_reply(records) ==
    IF Len(records) = 0
    THEN [kind |-> "no_logs", table |-> ""]
    ELSE [kind |-> "table",
          table |-> create_table(PR_HEADERS,
                                 [i \in 1..Len(records) |-> pr_table_row(records[i])]).text]

(***************************************************************************)
(* The computations on their own: the duration of a stored start and end,  *)
(* and the records of a list of lift entries, each run up to MaxRuns times *)
(* on one input.                                                           *)
(***************************************************************************)
GridStep == 7 * HOUR

Times == {0, 1, 59, 60, 600, 85800, DAY - 1} \cup {k * GridStep : k \in 1..MaxGrid}

Dates == 0..MaxDate

StoredVals ==
    {timedelta(t) : t \in Times} \cup {text_val(strftime(t)) : t \in Times}
    \cup {time_obj(600), timedelta(DAY + 600)}
    \cup {timedelta(0 - HOUR), text_val(<<25, 0, 0>>), text_val(<<12, 0, 60>>),
          text_val(<<>>), none_val}

DurInputs ==
    {[pc |-> "dur", start |-> s, end |-> e, hist |-> <<>>, send |-> <<>>,
      recent |-> <<>>] :
        s \in StoredVals, e \in StoredVals}

Names == {"Squat", "squat", "Bench Press"}

PRWeights == {100, 120}

PRDates == {1, 2}

LiftRows == [exercise_name : Names, weight : PRWeights, date : PRDates]

\* Two Bench Press entries and a heavier Squat, on three dates
PRExample ==
    <<[exercise_name |-> "Bench Press", weight |-> 100, date |-> 1],
      [exercise_name |-> "Bench Press", weight |-> 120, date |-> 2],
      [exercise_name |-> "Squat", weight |-> 140, date |-> 3]>>

PRInputs ==
    {[pc |-> "pr", entries |-> L, prs |-> <<>>] :
        L \in UNION {[1..n -> LiftRows] : n \in 0..MaxEntries} \cup {PRExample}}

\* The tables given to create_table: the headers, and up to MaxTableRows rows.
\* A row of a well-shaped table has a cell for each header; a ragged table has
\* rows of any length up to one more than the headers.
HeaderLists == {<<"X">>, <<"X", "Date">>, <<"Date", "X">>}

Cells == {none_cell, str_cell(""), str_cell("Squat"), int_cell(120)}

RaggedCells == {none_cell, str_cell("Squat")}

TableRows(cells, lens) == UNION {[1..n -> cells] : n \in lens}

WellShaped(headers) ==
    UNION {[1..n -> TableRows(Cells, {Len(headers)})] : n \in 0..MaxTableRows}

Ragged(headers) ==
    UNION {[1..n -> TableRows(RaggedCells, 0..(Len(headers) + 1))] : n \in 0..MaxTableRows}

TableInputs ==
    {[pc |-> "table", headers |-> h, rows |-> rows, out |-> <<>>] :
        h \in HeaderLists, rows \in UNION {WellShaped(hh) \cup Ragged(hh) : hh \in HeaderLists}}

\* The lift log of several users: empty at first, filled by add_lift_run; asked
\* holds what each !pr asked so far was answered
OwnInputs == {[pc |-> "own", lifts |-> <<>>, asked |-> <<>>]}

\* The session a user's lifts are logged into: each user's own
SessionOf(u) == IF u = "u1" THEN 1 ELSE 2

OwnNames == {"Squat", "Bench Press"}

\* The users who ask for their records (the others only log lifts)
Askers == {"u1"}

InitCalc == InitStore /\ calc \in DurInputs \cup PRInputs \cup TableInputs \cup OwnInputs

\* A value that is a time of day, and the time of day it is
IsTimeOfDay(v) ==
    CASE v.kind = "timedelta" -> v.secs \in 0..(DAY - 1)
      [] v.kind = "time" -> v.secs \in 0..(DAY - 1)
      [] v.kind = "str" -> /\ Len(v.hms) = 3
                           /\ v.hms[1] \in 0..23 /\ v.hms[2] \in 0..59 /\ v.hms[3] \in 0..59
      [] OTHER -> FALSE

TodOf(v) ==
    IF v.kind = "str" THEN v.hms[1] * HOUR + v.hms[2] * MINUTE + v.hms[3] ELSE v.secs

\* A value no time of day can be read from: a negative timedelta, a text that is
\* not %H:%M:%S, None.  (A timedelta of a day or more is read modulo 24 hours.)
Unreadable(v) ==
    \/ v.kind = "timedelta" /\ v.secs < 0
    \/ v.kind = "str" /\ ~IsTimeOfDay(v)
    \/ v.kind = "none"

\* history computes the Dur(m) cell of the row
history_run ==
    /\ calc.pc = "dur"
    /\ Len(calc.hist) < MaxRuns
    /\ \E d1 \in Dates, x \in {0, 1} :
          calc' = [calc EXCEPT !.hist =
                      Append(@, history_row(calc.start, calc.end, d1, d1 + x))]
    /\ UNCHANGED <<sessions, cardio, lifts, weights, clk, botRun, waiter, dash, reply>>

\* session_end computes the duration of the session that ends now, at calc.end
session_end_run ==
    /\ calc.pc = "dur"
    /\ Len(calc.send) < MaxRuns
    /\ IsTimeOfDay(calc.end)
    /\ \E d1 \in Dates, x \in {0, 1} :
          calc' = [calc EXCEPT !.send =
                      Append(@, session_end_row(calc.start, d1,
                                                combine(d1 + x, TodOf(calc.end))))]
    /\ UNCHANGED <<sessions, cardio, lifts, weights, clk, botRun, waiter, dash, reply>>

\* the dashboard computes the Dur(m) cell of the row in Recent Workouts
recent_workouts_run ==
    /\ calc.pc = "dur"
    /\ Len(calc.recent) < MaxRuns
    /\ \E d1 \in Dates, x \in {0, 1} :
          calc' = [calc EXCEPT !.recent =
                      Append(@, dash_row(calc.start, calc.end, d1, d1 + x))]
    /\ UNCHANGED <<sessions, cardio, lifts, weights, clk, botRun, waiter, dash, reply>>

\* the records query runs on the entries
pr_run ==
    /\ calc.pc = "pr"
    /\ Len(calc.prs) < MaxRuns
    /\ \E r \in get_personal_records(calc.entries) :
          calc' = [calc EXCEPT !.prs = Append(@, r)]
    /\ UNCHANGED <<sessions, cardio, lifts, weights, clk, botRun, waiter, dash, reply>>

\* create_table renders the table
create_table_run ==
    /\ calc.pc = "table"
    /\ calc.out = <<>>
    /\ calc' = [calc EXCEPT !.out = <<create_table(calc.headers, calc.rows)>>]
    /\ UNCHANGED <<sessions, cardio, lifts, weights, clk, botRun, waiter, dash, reply>>

\* a user logs a lift into their session, on day d
add_lift_run(u, exercise, weight, d) ==
    /\ calc.pc = "own"
    /\ Len(calc.lifts) < MaxOwnLifts
    /\ calc' = [calc EXCEPT !.lifts =
                   add_weightlift_db(@, SessionOf(u), exercise, weight, combine(d, 0))]
    /\ UNCHANGED <<sessions, cardio, lifts, weights, clk, botRun, waiter, dash, reply>>

\* !pr, lines 621-646: user u asks for their records
personal_records(u) ==
    /\ calc.pc = "own"
    /\ Len(calc.asked) < MaxRuns
    /\ \E records \in get_personal_records(calc.lifts) :
          calc' = [calc EXCEPT !.asked =
                      Append(@, [owner |-> u, n |-> Len(calc.lifts), recs |-> records,
                                 shown |-> personal_records_reply(records)])]
    /\ UNCHANGED <<sessions, cardio, lifts, weights, clk, botRun, waiter, dash, reply>>

NextCalc ==
    \/ history_run
    \/ session_end_run
    \/ recent_workouts_run
    \/ pr_run
    \/ create_table_run
    \/ \E u \in Users, e \in OwnNames, w \in PRWeights, d \in PRDates :
          add_lift_run(u, e, w, d)
    \/ \E u \in Askers : personal_records(u)

SpecCalc == InitCalc /\ [][NextCalc]_vars

Runs(seq) == {seq[i] : i \in 1..Len(seq)}

DurRuns == Runs(calc.hist) \cup Runs(calc.send)

\* C6: for a start and an end time of day with end >= start, every duration
\* computed (by history and by session_end) is floor((end - start) / 60).
C6_SameDayFloor ==
    (/\ calc.pc = "dur"
     /\ IsTimeOfDay(calc.start) /\ IsTimeOfDay(calc.end)
     /\ TodOf(calc.end) >= TodOf(calc.start))
    => \A r \in DurRuns :
          /\ r.out = "minutes"
          /\ r.min = (TodOf(calc.end) - TodOf(calc.start)) \div 60

\* C6's case: equal start and end, computed by both, give 0 minutes.
C6_Witness ==
    /\ calc.pc = "dur"
    /\ calc.start = timedelta(600) /\ calc.end = text_val(<<0, 10, 0>>)
    /\ Len(calc.hist) >= 1 /\ Len(calc.send) >= 1
    /\ calc.hist[1].min = 0 /\ calc.send[1].min = 0

\* C7: for an end time of day strictly earlier than the start, every duration
\* computed is floor((end + 24h - start) / 60); 23:50:00 to 00:10:00 is 20 minutes.
C7_MidnightRollover ==
    (/\ calc.pc = "dur"
     /\ IsTimeOfDay(calc.start) /\ IsTimeOfDay(calc.end)
     /\ TodOf(calc.end) < TodOf(calc.start))
    => \A r \in DurRuns :
          /\ r.out = "minutes"
          /\ r.min = (TodOf(calc.end) + 24 * HOUR - TodOf(calc.start)) \div 60
          /\ (TodOf(calc.start) = 23 * HOUR + 50 * MINUTE /\ TodOf(calc.end) = 10 * MINUTE)
                => r.min = 20

\* C7's case: 23:50:00 to 00:10:00, computed by both.
C7_Witness ==
    /\ calc.pc = "dur"
    /\ calc.start = timedelta(85800) /\ calc.end = timedelta(600)
    /\ Len(calc.hist) >= 1 /\ Len(calc.send) >= 1
    /\ calc.hist[1].min = 20 /\ calc.send[1].min = 20

\* C8: when no time of day can be read from the stored start (or end), the caller
\* handles the failure: session_end replies that the duration cannot be
\* calculated, and history renders "-" as the row's duration.
C8_ParseErrorHandled ==
    calc.pc = "dur" =>
        /\ Unreadable(calc.start) => \A r \in Runs(calc.send) : r.out = "parse_error"
        /\ (Unreadable(calc.start) \/ Unreadable(calc.end))
              => \A r \in Runs(calc.hist) : r.out = "dash"

\* C9: two runs of the duration computation on the same start and end, and two
\* runs of the records computation on the same lift entries, give the same
\* result, whatever the date and the clock.
C9_Deterministic ==
    /\ calc.pc = "dur" =>
          /\ \A r1, r2 \in Runs(calc.hist) : r1 = r2
          /\ \A r1, r2 \in Runs(calc.send) : r1 = r2
    /\ calc.pc = "pr" => \A r1, r2 \in Runs(calc.prs) : r1 = r2

EntryNames == {calc.entries[i].exercise_name : i \in 1..Len(calc.entries)}

C11_DescendingByWeight ==
    calc.pc = "pr" =>
        \A r \in Runs(calc.prs) :
            /\ \A i \in 1..(Len(r) - 1) : r[i].max_weight >= r[i + 1].max_weight
            /\ calc.entries = PRExample =>
                  r = <<[exercise_name |-> "Squat", max_weight |-> 140, pr_date |-> 3],
                        [exercise_name |-> "Bench Press", max_weight |-> 120, pr_date |-> 2]>>

\* C11's case: the query has run on the three entries of the example.
C11_Witness ==
    /\ calc.pc = "pr"
    /\ calc.entries = PRExample
    /\ Len(calc.prs) >= 1
    /\ calc.prs[1][1].max_weight > calc.prs[1][2].max_weight

(***************************************************************************)
(* The rendered table, measured on the text create_table returns.          *)
(***************************************************************************)
\* The k-th smallest member of a set of positions
Nth(S, k) == CHOOSE p \in S : Cardinality({q \in S : q < p}) = k - 1

\* The parts of a text between the positions in S, which hold the separators
Parts(text, S) ==
    LET n == Cardinality(S)
        pos(k) == IF k = 0 THEN 0 ELSE IF k = n + 1 THEN Len(text) + 1 ELSE Nth(S, k)
    IN  [k \in 1..(n + 1) |-> SubSeq(text, pos(k - 1) + 1, pos(k) - 1)]

\* The lines of a text: its parts between line breaks
Lines(text) == Parts(text, {i \in 1..Len(text) : SubSeq(text, i, i) = "\n"})

\* The lengths of the runs of the horizontal line in a border, between its
\* corners and junctions, left to right
border_runs(line) ==
    LET parts == Parts(line, {i \in 1..Len(line) : SubSeq(line, i, i) # HLINE})
    IN  [k \in 1..(Len(parts) - 2) |-> Len(parts[k + 1])]

\* The column widths a border shows: each run is the width and a space on each side
MeasuredWidths(line) ==
    LET runs == border_runs(line)
    IN  [i \in 1..Len(runs) |-> runs[i] - 2]

\* What the table shows for a cell: "-" for None, the cell's own text otherwise
Rendered(cell) ==
    CASE cell.kind = "none" -> "-"
      [] cell.kind = "int" -> ToString(cell.n)
      [] OTHER -> cell.s

\* Every row has a cell for each header
TableShaped == \A r \in 1..Len(calc.rows) : Len(calc.rows[r]) = Len(calc.headers)

TableDone == calc.pc = "table" /\ calc.out # <<>>

\* The greatest of the header's length and the rendered cells' lengths of column i
ColumnMax(i) ==
    SetMax({Len(calc.headers[i])}
           \cup {Len(Rendered(calc.rows[r][i])) : r \in 1..Len(calc.rows)})

RECURSIVE SumTo(_, _)
SumTo(f, n) == IF n = 0 THEN 0 ELSE f[n] + SumTo(f, n - 1)

\* C15: a render call in which some row's cell count differs from the header
\* count fails with a ShapeError, and returns no table.
C15_ShapeError ==
    (TableDone /\ ~TableShaped) => calc.out[1].err = "ShapeError"

\* C16: in the rendered table of a well-shaped input, each column's width is the
\* maximum of its header's length and the lengths of the rendered cells of that
\* column.
C16_ColumnWidth ==
    (TableDone /\ TableShaped) =>
        /\ calc.out[1].err = "none"
        /\ MeasuredWidths(Lines(calc.out[1].text)[1])
              = [i \in 1..Len(calc.headers) |-> ColumnMax(i)]

\* C16's case: a first column as wide as its header and a second as wide as a
\* cell that is longer than its header.
C16_Witness ==
    /\ TableDone
    /\ calc.headers = <<"Date", "X">>
    /\ calc.rows = <<<<int_cell(120), str_cell("Squat")>>, <<none_cell, none_cell>>>>
    /\ MeasuredWidths(Lines(calc.out[1].text)[1]) = <<4, 5>>

\* C17: for a well-shaped input, every line of the rendered table (top border,
\* header row, separator, data rows, bottom border) has the same number of
\* characters: the sum over the columns of (column width + 3), plus 1.
C17_LineWidth ==
    (TableDone /\ TableShaped) =>
        LET lines == Lines(calc.out[1].text)
            width == SumTo([i \in 1..Len(calc.headers) |-> ColumnMax(i) + 3],
                           Len(calc.headers)) + 1
        IN  \A k \in 1..Len(lines) : Len(lines[k]) = width

\* C17's case: two data rows whose cells differ in length, rendered.
C17_Witness ==
    /\ TableDone
    /\ calc.headers = <<"X", "Date">>
    /\ calc.rows = <<<<str_cell("Squat"), none_cell>>, <<str_cell(""), int_cell(120)>>>>
    /\ Len(Lines(calc.out[1].text)[4]) = 16

\* C18: a table rendered from n data rows has exactly n + 4 lines: the top
\* border, the header row, the separator, the n data rows in input order, the
\* bottom border; with no data rows it has exactly 4 lines.
C18_LineCount ==
    (TableDone /\ TableShaped) =>
        LET lines == Lines(calc.out[1].text)
            n == Len(calc.rows)
            starts(line, prefix) ==
                Len(line) >= Len(prefix) /\ SubSeq(line, 1, Len(prefix)) = prefix
        IN  /\ Len(lines) = n + 4
            /\ starts(lines[1], TOP_LEFT \o HLINE)
            /\ starts(lines[2], VLINE \o " " \o calc.headers[1])
            /\ starts(lines[3], MID_LEFT \o HLINE)
            /\ \A r \in 1..n :
                  starts(lines[3 + r], VLINE \o " " \o Rendered(calc.rows[r][1]))
            /\ starts(lines[n + 4], BOT_LEFT \o HLINE)
            /\ n = 0 => Len(lines) = 4

\* C18's case: headers and no data rows, rendered in four lines.
C18_Witness ==
    /\ TableDone
    /\ calc.headers = <<"X", "Date">>
    /\ calc.rows = <<>>
    /\ Len(Lines(calc.out[1].text)) = 4

\* C19: a None cell renders as the one character "-" and counts 1 in its
\* column's width; every other cell renders as its own text (each padded with
\* spaces to the column's width).
C19_Placeholder ==
    (TableDone /\ TableShaped) =>
        LET lines == Lines(calc.out[1].text)
            W == MeasuredWidths(lines[1])
            offset(i) == 3 + SumTo([k \in 1..Len(W) |-> W[k] + 3], i - 1)
        IN  \A r \in 1..Len(calc.rows), i \in 1..Len(calc.headers) :
                LET cell == calc.rows[r][i]
                    shown == SubSeq(lines[3 + r], offset(i), offset(i) + W[i] - 1)
                    own == IF cell.kind = "int" THEN ToString(cell.n) ELSE cell.s
                IN  /\ cell.kind = "none" =>
                          /\ W[i] >= 1
                          /\ shown = "-" \o repeat(" ", W[i] - 1)
                    /\ cell.kind # "none" =>
                          shown = own \o repeat(" ", W[i] - Len(own))

\* C19's case: headers [X] and the one row [None] give the data line "| - |".
C19_Witness ==
    /\ TableDone
    /\ calc.headers = <<"X">>
    /\ calc.rows = <<<<none_cell>>>>
    /\ Lines(calc.out[1].text)[4] = VLINE \o " - " \o VLINE

(***************************************************************************)
(* The records of one owner among several.                                 *)
(***************************************************************************)
\* The first n entries of the lift log that user u logged
Mine(u, n) == {j \in 1..n : calc.lifts[j].session_id = SessionOf(u)}

\* The most recent date among the entries idx of L that have the name and, of
\* those, the greatest weight; NULL when there is no such entry
RecordDate(L, idx, name) ==
    LET group == {j \in idx : L[j].exercise_name = name}
        top == {j \in group : \A k \in group : L[k].weight <= L[j].weight}
    IN  IF top = {} THEN NULL ELSE SetMax({L[j].date : j \in top})

\* C12: for each record personal_records returns, the record date is the most
\* recent date among the owner's entries that have the record's exercise name
\* and a weight equal to the greatest weight of that group.
C12_RecordDate ==
    /\ calc.pc = "pr" =>
          \A r \in Runs(calc.prs) : \A i \in 1..Len(r) :
              r[i].pr_date =
                  RecordDate(calc.entries, 1..Len(calc.entries), r[i].exercise_name)
    /\ calc.pc = "own" =>
          \A a \in Runs(calc.asked) : \A i \in 1..Len(a.recs) :
              a.recs[i].pr_date =
                  RecordDate(calc.lifts, Mine(a.owner, a.n), a.recs[i].exercise_name)

\* C13: the records of an owner depend only on that owner's lift entries: two
\* !pr of one user, with entries of other users (and none of the user's own)
\* added between them, show the same records with the same weights and dates.
C13_OwnEntriesOnly ==
    calc.pc = "own" =>
        \A a, b \in Runs(calc.asked) :
            (a.owner = b.owner /\ Mine(a.owner, a.n) = Mine(b.owner, b.n))
                => Runs(a.recs) = Runs(b.recs)

\* C14: with no lift entries the records query returns the empty sequence, and
\* the !pr command then answers that there are no logs and renders no table.
C14_EmptyRecords ==
    /\ (calc.pc = "pr" /\ calc.entries = <<>>) => \A r \in Runs(calc.prs) : r = <<>>
    /\ calc.pc = "own" =>
          \A a \in Runs(calc.asked) :
              a.n = 0 => /\ a.recs = <<>>
                         /\ a.shown.kind = "no_logs"
                         /\ a.shown.table = ""

\* C14's case: !pr asked with no lift logged, and asked again after a lift.
C14_Witness ==
    /\ calc.pc = "own"
    /\ Len(calc.asked) >= 2
    /\ calc.asked[1].n = 0 /\ calc.asked[1].shown.kind = "no_logs"
    /\ calc.asked[2].n = 1 /\ calc.asked[2].shown.kind = "table"

(***************************************************************************)
(* The lookup of the active session, as the bot's commands use it.         *)
(***************************************************************************)
\* The highest id among the sessions with a null end time
IsNewestActive(sid) ==
    /\ sid \in ActiveIds(sessions)
    /\ \A i \in ActiveIds(sessions) : i <= sid

\* C20: the lookup of the active session never fails for want of one: with no
\* session of null end time it returns the absent value (the command answers
\* that there is no active session, or goes on to start one), and otherwise it
\* returns the session with the highest id among those of null end time.
C20_ActiveLookup ==
    [][/\ (\E u \in Users : session_end(u)) =>
             IF ActiveIds(sessions) = {}
             THEN reply'.kind = "no_active" /\ reply'.sid = NULL
             ELSE reply'.kind = "found" /\ IsNewestActive(reply'.sid)
       /\ (\E u \in Users : add_log_read(u)) =>
             IF ActiveIds(sessions) = {}
             THEN reply'.kind = "no_active" /\ botRun' = Idle
             ELSE botRun'.op = "log" /\ IsNewestActive(botRun'.sid)
       /\ (\E u \in Users : session_start_read(u)) =>
             IF ActiveIds(sessions) = {}
             THEN botRun'.op = "start"
             ELSE reply'.kind = "already_active" /\ IsNewestActive(reply'.sid)]_vars

\* C20's case: two sessions with a null end time, and !session_end has found
\* the later one.
C20_Witness ==
    /\ ActiveIds(sessions) = {1, 2}
    /\ reply.kind = "found"
    /\ reply.sid = 2

(***************************************************************************)
(* The session commands, step by step.                                     *)
(***************************************************************************)
\* C21: a session start requested while the lookup finds an active session is
\* refused with a message that names an active session's id, and changes
\* nothing: the sessions stay as they are and the request goes on to no insert.
C21_StartRefused ==
    [][/\ \A u \in Users :
             (session_start_read(u) /\ ActiveIds(sessions) # {}) =>
                 /\ reply'.kind = "already_active"
                 /\ reply'.to = u
                 /\ reply'.sid \in ActiveIds(sessions)
                 /\ sessions' = sessions
                 /\ botRun' = Idle
       /\ \A u \in DashUsers :
             (dash_start_read(u) /\ ActiveOf(u) # {}) =>
                 /\ reply'.kind = "already_active"
                 /\ reply'.to = u
                 /\ reply'.sid \in ActiveOf(u)
                 /\ sessions' = sessions
                 /\ dash'[u] = Idle]_vars

\* C21's case: a start has been refused, naming the one active session, and no
\* command is on its way to an insert.
C21_Witness ==
    /\ reply.kind = "already_active"
    /\ ActiveIds(sessions) = {reply.sid}
    /\ Len(sessions) = 1
    /\ botRun = Idle
    /\ dash = [u \in DashUsers |-> Idle]

\* The entries of a log table that a step has added
Added(old, new) == {new[i] : i \in (Len(old) + 1)..Len(new)}

\* C22: every exercise log entry references a session that exists and has a null
\* end time at the moment the entry is inserted, also when a session end falls
\* between the add's lookup and its insert; an add request that finds no active
\* session inserts nothing.
C22_LogsIntoActive ==
    [][/\ \A row \in Added(cardio, cardio') \cup Added(lifts, lifts') :
             row.session_id \in ActiveIds(sessions)
       /\ \A u \in Users :
             (add_log_read(u) /\ ActiveIds(sessions) = {}) =>
                 /\ botRun' = Idle
                 /\ cardio' = cardio /\ lifts' = lifts]_vars

\* C23: when the wait of session_end runs out with no qualifying reply, the
\* command reports a timeout and leaves the session exactly as it was: a null
\* end time stays null and the calories stay unset, so the session is still
\* active.
C23_TimeoutKeepsSession ==
    [][\A u \in Users :
          session_end_timeout(u) =>
              LET sid == waiter[u].sid
              IN  /\ reply'.kind = "timeout" /\ reply'.to = u
                  /\ sessions' = sessions
                  /\ sessions[sid].end_time = NULL =>
                        /\ sessions'[sid].end_time = NULL
                        /\ sessions'[sid].total_calories = NULL
                        /\ sid \in ActiveIds(sessions')
                  /\ ~waiter'[u].on]_vars

\* C23's case: the wait has timed out and the session is still active.
C23_Witness ==
    /\ reply.kind = "timeout"
    /\ reply.sid \in ActiveIds(sessions)
    /\ sessions[reply.sid].total_calories = NULL
    /\ clk >= StartClock + WAIT_TIMEOUT
    /\ ~waiter[reply.to].on

\* C24: a session_end request that finds an active session goes on to wait for
\* the reply about that session, and every reply that passes the check within
\* the wait leaves that session with a non-null end time and a recorded calorie
\* value.
C24_CanBeEnded ==
    [][\A u \in Users :
          /\ (session_end(u) /\ ActiveIds(sessions) # {}) =>
                /\ waiter'[u].on
                /\ waiter'[u].sid \in ActiveIds(sessions)
          /\ \A content \in Replies :
                session_end_reply(u, content) =>
                    /\ sessions'[waiter[u].sid].end_time # NULL
                    /\ sessions'[waiter[u].sid].total_calories # NULL]_vars

(***************************************************************************)
(* The three duration computations side by side.                           *)
(***************************************************************************)
AllDurRuns == DurRuns \cup Runs(calc.recent)

\* The values the driver hands back for the TIME columns of a completed session
StoredPair ==
    /\ calc.pc = "dur"
    /\ calc.start.kind = "timedelta" /\ IsTimeOfDay(calc.start)
    /\ calc.end.kind = "timedelta" /\ IsTimeOfDay(calc.end)

\* C25: for every stored start/end time-of-day pair, the durations computed by
\* history, by session_end and by the dashboard's Recent Workouts are all a
\* number of minutes, and the same number, also when the session crosses
\* midnight or ends at exactly 00:00:00.
C25_DurationsAgree ==
    StoredPair =>
        \A r, q \in AllDurRuns : r.out = "minutes" /\ r.min = q.min

(***************************************************************************)
(* The session commands across the wait and across users.                  *)
(***************************************************************************)
\* The duration history derives from a session's stored start and end
StoredDurations(session) ==
    {history_row(timedelta(session.start_time), timedelta(session.end_time),
                 d1, d1 + x) : d1 \in Dates, x \in {0, 1}}

\* C26: when a reply ends the session, the duration session_end announces in
\* its final message (the one it computed before the wait) is the duration
\* history derives from the session's stored start and end times.
C26_AnnouncedDuration ==
    [][\A u \in Users, content \in Replies :
          (session_end_reply(u, content) /\ reply'.kind = "ended") =>
              \A r \in StoredDurations(sessions'[waiter[u].sid]) :
                  r.out = "minutes" /\ r.min = waiter[u].dur]_vars

OwnerOf(sid) == sessions[sid].owner

\* C27: a session_start of the bot is refused only when the requesting user has
\* an active session; a session_end reply ends only a session the replying user
\* started; add_cardio and add_lift log only into a session the requesting user
\* started.
C27_PerOwner ==
    [][/\ \A u \in Users :
             (session_start_read(u) /\ botRun' = Idle) => ActiveOf(u) # {}
       /\ \A u \in Users :
             (session_end(u) /\ waiter'[u].on) => OwnerOf(waiter'[u].sid) = u
       /\ \A u \in Users, content \in Replies :
             (session_end_reply(u, content) /\ reply'.kind = "ended") =>
                 OwnerOf(waiter[u].sid) = u
       /\ ((\E m \in Machines, d \in Durations : add_cardio(m, d))
           \/ (\E e \in MainExercises, w \in LiftWeights : add_lift(e, w))) =>
                 \A row \in Added(cardio, cardio') \cup Added(lifts, lifts') :
                     OwnerOf(row.session_id) = botRun.user]_vars

====
